---- MODULE Spec2Model ----
(***************************************************************************)
(* State-machine model of ACME's output engine (src/src/output.c): the     *)
(* output buffer with its write index and watermarks, the sorted ring of   *)
(* recorded segments, the virtual CPU's program counter, the chain of      *)
(* pseudopc contexts and the output-format selection.                      *)
(*                                                                         *)
(* C functions that mutate the globals are operators over a machine record *)
(* m (the globals of output.c) that return the machine after the call.     *)
(* The buffer is scaled down from 64 KiB to BufSize bytes (a power of two, *)
(* so that "& (bufsize - 1)" is "% BufSize").                              *)
(***************************************************************************)
EXTENDS Integers, Sequences, FiniteSets, TLC

\* ---------------------------------------------------------------- constants
\* out->bufsize (scaled down; a power of two like 0x10000 and 0x1000000)
BufSize == 4
\* NO_SEGMENT_START: invalid value to signal "not in a segment"
NO_SEGMENT_START == -1
\* segment flags (bit values as used by the tests in output.c)
SEGMENT_FLAG_OVERLAY == 1
SEGMENT_FLAG_INVISIBLE == 2
\* compatibility levels compared against config.wanted_version
VER_SHORTER_SETPC_WARNING == 1
VER_DISABLED_OBSOLETE_STUFF == 2
\* default fill value used when Output_init gets MEMINIT_USE_DEFAULT
FILLVALUE_INITIAL == 0
MEMINIT_USE_DEFAULT == -1
\* NULL pointer (list head is ring node 0, heap nodes are 1..Len(heap))
NULL == 0

\* ------------------------------------------------------------------- bounds
\* number of passes the driver runs
MaxPass == 2
\* number of segment structs ever malloc'ed by link_segment
MaxSegments == 1
\* the same, in the first pass of SpecRing
MaxRing == 2
\* levels argument of pseudopc_unpseudo
MaxLevels == 3
\* number of pseudopc structs ever malloc'ed by pseudopc_start
MaxContexts == 2

\* ------------------------------------------------------------------- inputs
\* segment_flags arguments of vcpu_set_pc
FlagValues == {0, SEGMENT_FLAG_OVERLAY, SEGMENT_FLAG_INVISIBLE}
\* names held in GlobalDynaBuf when outputfile_set_format is called
FormatNames == {"cbm", "hex", "o65"}

VARIABLES
    out,                        \* struct output default_output (*out)
    heap,                       \* the malloc'ed struct segment nodes, by address 1..
    CPU_state,                  \* struct vcpu CPU_state: pc (val, ntype), add_to_pc
    Output_byte,                \* the function pointer: "NULL", "no_output", "real_output"
    pseudopc_current_context,   \* current struct pseudopc (NULL when not in a block)
    contexts,                   \* the malloc'ed struct pseudopc, by address 1..
    output_format,              \* chosen file format
    pass,                       \* the driver's pass record: number, undefined_count
    config,                     \* configuration toggles, fixed for the run
    halted,                     \* "none", or how the process ended
    diags,                      \* diagnostics thrown by the last call, in order
    last,                       \* the last call: name, arguments, return value
    hist,                       \* history of the run (observations for the properties)
    hexfile                     \* Output_save_file in the HEX format: locals of outputHex, lines written

vars == <<out, heap, CPU_state, Output_byte, pseudopc_current_context, contexts,
          output_format, pass, config, halted, diags, last, hist, hexfile>>

\* ---------------------------------------------------------------- helpers
\* x & (bufsize - 1) for a power-of-two bufsize, two's complement x
Mask(x) == x % BufSize

\* bitwise exclusive or of two non-negative integers
RECURSIVE BitXor(_, _)
BitXor(a, b) ==
    IF a = 0 THEN b
    ELSE IF b = 0 THEN a
    ELSE (((a % 2) + (b % 2)) % 2) + 2 * BitXor(a \div 2, b \div 2)

\* flags & bit, for a single-bit value
HasFlag(flags, bit) == (flags \div bit) % 2 = 1

\* FIRST_PASS, in a pass record
FIRST_PASS == pass.number = 1

\* the globals of output.c as one record, with the diagnostics of the call,
\* the way the process ended ("none" while it runs) and the buffer indices
\* the call stored to
Machine ==
    [out |-> out, heap |-> heap, cpu |-> CPU_state, ob |-> Output_byte,
     cur |-> pseudopc_current_context, ctxs |-> contexts,
     fmt |-> output_format, undefined_count |-> pass.undefined_count,
     diags |-> <<>>, fatal |-> "none", stored |-> {}]

\* ------------------------------------------------------------ diagnostics
Throw(m, sev, msg) == [m EXCEPT !.diags = Append(@, [sev |-> sev, msg |-> msg])]
Throw_warning(m, msg) == Throw(m, "warning", msg)
Throw_error(m, msg) == Throw(m, "error", msg)
\* serious errors and found bugs end the process
Throw_serious_error(m, msg) == [Throw(m, "serious", msg) EXCEPT !.fatal = "serious"]
Bug_found(m, msg) == [Throw(m, "bug", msg) EXCEPT !.fatal = "bug"]

MsgTooMuch == "Produced too much code."
MsgReached == "Segment reached another one, overwriting it."
MsgStartsInside == "Segment starts inside another one, overwriting it."
exception_pc_undefined == "Program counter undefined."
MsgMemInit == "Memory already initialised."
MsgSwitchedOff == "Offset assembly still active at end of segment. Switched it off."
MsgStillActive == "Offset assembly still active at end of segment."
MsgNoContext == "Un-pseudopc operator '&' has no !pseudopc context."
MsgBugPseudopc == "ClosingUnopenedPseudopcBlock"

\* how often the last call threw msg
CountMsg(ds, msg) == Cardinality({i \in 1..Len(ds) : ds[i].msg = msg})

\* ------------------------------------------------------------ segment ring
\* the struct segment at address p (the list head is part of *out)
NodeAt(m, p) == IF p = NULL THEN m.out.segment.list_head ELSE m.heap[p]
SetNext(m, p, v) ==
    IF p = NULL THEN [m EXCEPT !.out.segment.list_head.next = v]
    ELSE [m EXCEPT !.heap[p].next = v]
SetPrev(m, p, v) ==
    IF p = NULL THEN [m EXCEPT !.out.segment.list_head.prev = v]
    ELSE [m EXCEPT !.heap[p].prev = v]
\* result of a ring walk that never leaves its loop
HANG == -1

\* while (test_segment->start <= new_pc) test_segment = test_segment->next;
RECURSIVE WalkStartLE(_, _, _, _)
WalkStartLE(m, test_segment, new_pc, fuel) ==
    IF fuel = 0 THEN HANG
    ELSE IF NodeAt(m, test_segment).start <= new_pc
         THEN WalkStartLE(m, NodeAt(m, test_segment).next, new_pc, fuel - 1)
         ELSE test_segment

\* find_segment_max taking the segment's start itself for the limit
find_segment_max_at_start(m, new_pc) ==
    LET m1 == [m EXCEPT !.out.segment.list_head.start = new_pc + 1]
        test_segment == WalkStartLE(m1, m1.out.segment.list_head.next, new_pc,
                                    Len(m1.heap) + 2)
    IN  IF test_segment = HANG THEN [m1 EXCEPT !.fatal = "hang"]
        ELSE IF test_segment = NULL
             THEN [m1 EXCEPT !.out.segment.max = m1.out.bufsize - 1]
             ELSE [m1 EXCEPT !.out.segment.max = NodeAt(m1, test_segment).start]

\* set up new out->segment.max value according to the given address
find_segment_max(m, new_pc) ==
    LET m1 == [m EXCEPT !.out.segment.list_head.start = new_pc + 1]
        test_segment == WalkStartLE(m1, m1.out.segment.list_head.next, new_pc,
                                    Len(m1.heap) + 2)
    IN  IF test_segment = HANG THEN [m1 EXCEPT !.fatal = "hang"]
        ELSE IF test_segment = NULL
             THEN [m1 EXCEPT !.out.segment.max = m1.out.bufsize - 1]
             ELSE [m1 EXCEPT !.out.segment.max = NodeAt(m1, test_segment).start - 1]

\* the loop of link_segment: walk ring to find correct spot
RECURSIVE WalkLink(_, _, _, _, _)
WalkLink(m, test_segment, start, length, fuel) ==
    LET t == NodeAt(m, test_segment)
    IN  IF fuel = 0 THEN HANG
        ELSE IF (t.start < start) \/ ((t.start = start) /\ (t.length < length))
             THEN WalkLink(m, t.next, start, length, fuel - 1)
             ELSE test_segment

\* link_segment ordering the ring by start alone
link_segment_by_start(m, start, length) ==
    LET new_segment == Len(m.heap) + 1
        m1 == [m EXCEPT !.out.segment.list_head.start = start,
                        !.out.segment.list_head.length = length + 1]
        test_segment == WalkStartLE(m1, m1.out.segment.list_head.next, start - 1,
                                    Len(m1.heap) + 2)
    IN  IF test_segment = HANG THEN [m1 EXCEPT !.fatal = "hang"]
        ELSE LET m2 == [m1 EXCEPT !.heap = Append(@,
                            [next |-> test_segment,
                             prev |-> NodeAt(m1, test_segment).prev,
                             start |-> start, length |-> length])]
                 m3 == SetPrev(m2, m2.heap[new_segment].next, new_segment)
             IN  SetNext(m3, m3.heap[new_segment].prev, new_segment)

\* link segment data into segment ring
link_segment(m, start, length) ==
    LET new_segment == Len(m.heap) + 1
        m1 == [m EXCEPT !.out.segment.list_head.start = start,
                        !.out.segment.list_head.length = length + 1]
        test_segment == WalkLink(m1, m1.out.segment.list_head.next, start, length,
                                 Len(m1.heap) + 2)
    IN  IF test_segment = HANG THEN [m1 EXCEPT !.fatal = "hang"]
        ELSE LET m2 == [m1 EXCEPT !.heap = Append(@,
                            [next |-> test_segment,
                             prev |-> NodeAt(m1, test_segment).prev,
                             start |-> start, length |-> length])]
                 \* new_segment->next->prev = new_segment
                 m3 == SetPrev(m2, m2.heap[new_segment].next, new_segment)
                 \* new_segment->prev->next = new_segment
             IN  SetNext(m3, m3.heap[new_segment].prev, new_segment)

\* the loop of check_segment: the address of the first segment that holds
\* new_pc, or NULL when the walk leaves the loop without one
RECURSIVE WalkCheck(_, _, _, _)
WalkCheck(m, test_segment, new_pc, fuel) ==
    LET t == NodeAt(m, test_segment)
    IN  IF fuel = 0 THEN HANG
        ELSE IF t.start <= new_pc
             THEN IF t.start + t.length > new_pc
                  THEN test_segment
                  ELSE WalkCheck(m, t.next, new_pc, fuel - 1)
             ELSE NULL

\* check whether given PC is inside segment
check_segment(m, new_pc) ==
    LET m1 == [m EXCEPT !.out.segment.list_head.start = new_pc + 1,
                        !.out.segment.list_head.length = 1]
        hit == WalkCheck(m1, m1.out.segment.list_head.next, new_pc, Len(m1.heap) + 2)
    IN  IF hit = HANG THEN [m1 EXCEPT !.fatal = "hang"]
        ELSE IF hit # NULL
             THEN Throw(m1, IF config.segment_warning_is_error THEN "error" ELSE "warning",
                        MsgStartsInside)
             ELSE m1

\* --------------------------------------------------------- byte emission
\* border_crossed letting the offset bufsize pass
border_crossed_late(m, current_offset) ==
    IF current_offset > m.out.bufsize
    THEN Throw_serious_error(m, MsgTooMuch)
    ELSE IF FIRST_PASS
         THEN find_segment_max(
                  Throw(m, IF config.segment_warning_is_error THEN "error" ELSE "warning",
                        MsgReached),
                  current_offset + 1)
         ELSE m

\* output buffer overrun and segment limit: the two ways of crossing a border
border_crossed(m, current_offset) ==
    IF current_offset >= m.out.bufsize
    THEN Throw_serious_error(m, MsgTooMuch)
    ELSE IF FIRST_PASS
         THEN find_segment_max(
                  Throw(m, IF config.segment_warning_is_error THEN "error" ELSE "warning",
                        MsgReached),
                  current_offset + 1)
         ELSE m

\* real_output leaving highest_written alone
real_output_lowest_only(m, byte) ==
    LET m1 == IF m.out.write_idx > m.out.segment.max
              THEN border_crossed(m, m.out.write_idx)
              ELSE m
        idx == m1.out.write_idx
    IN  IF m1.fatal # "none" THEN m1
        ELSE IF idx \notin DOMAIN m1.out.buffer
             THEN [m1 EXCEPT !.fatal = "out_of_bounds"]
             ELSE [m1 EXCEPT !.out.lowest_written = IF idx < @ THEN idx ELSE @,
                             !.out.buffer[idx] = BitXor(byte % 256, m1.out.xor),
                             !.out.write_idx = idx + 1, !.cpu.add_to_pc = @ + 1,
                             !.stored = @ \cup {idx}]

\* send low byte to output buffer, automatically increasing program counter
real_output(m, byte) ==
    LET m1 == IF m.out.write_idx > m.out.segment.max
              THEN border_crossed(m, m.out.write_idx)
              ELSE m
        idx == m1.out.write_idx
    IN  IF m1.fatal # "none" THEN m1
        ELSE IF idx \notin DOMAIN m1.out.buffer THEN [m1 EXCEPT !.fatal = "out_of_bounds"]
        ELSE [m1 EXCEPT
                !.out.lowest_written = IF idx < @ THEN idx ELSE @,
                !.out.highest_written = IF idx > @ THEN idx ELSE @,
                !.out.buffer[idx] = BitXor(byte % 256, m1.out.xor),
                !.out.write_idx = idx + 1,
                !.cpu.add_to_pc = @ + 1,
                !.stored = @ \cup {idx}]

\* no_output leaving the function pointer as it is
no_output_keeps_pointer(m, byte) ==
    real_output(Throw_error(m, exception_pc_undefined), byte)

\* throw error (pc undefined) and use fake pc from now on
no_output(m, byte) ==
    real_output([Throw_error(m, exception_pc_undefined) EXCEPT !.ob = "real_output"], byte)

\* the call through the function pointer Output_byte
CallOutput_byte(m, byte) ==
    IF m.ob = "no_output" THEN no_output(m, byte) ELSE real_output(m, byte)

\* skip over some bytes in output buffer without starting a new segment
output_skip(m, size) ==
    IF size < 1 THEN m
    ELSE
    LET undefined == m.ob = "no_output"
        m1 == IF undefined THEN CallOutput_byte(m, 0) ELSE m
        size1 == IF undefined THEN size - 1 ELSE size
        upto == m1.out.write_idx + size1 - 1
        m2 == IF m1.fatal = "none" /\ upto > m1.out.segment.max
              THEN border_crossed(m1, upto)
              ELSE m1
    IN  IF m2.fatal # "none" THEN m2
        ELSE [m2 EXCEPT
                !.out.lowest_written = IF m2.out.write_idx < @ THEN m2.out.write_idx ELSE @,
                !.out.highest_written = IF upto > @ THEN upto ELSE @,
                !.out.write_idx = @ + size1,
                !.cpu.add_to_pc = @ + size1]

\* ------------------------------------------------------- fill and formats
\* fill output buffer with given byte value
fill_completely(m, value) ==
    [m EXCEPT !.out.buffer = [i \in 0..(m.out.bufsize - 1) |-> value],
              !.out.fill_value = value]

\* output_initmem without the MemInit flag
output_initmem_unguarded(m, content) ==
    LET m1 == fill_completely([m EXCEPT !.out.initvalue_set = TRUE], content)
    IN  [m |-> [m1 EXCEPT !.undefined_count = IF @ = 0 THEN 1 ELSE @],
         ret |-> 0]

\* define default value for empty memory ("!initmem" pseudo opcode):
\* the machine after the call and the value returned
output_initmem(m, content) ==
    IF m.out.initvalue_set
    THEN [m |-> Throw_warning(m, MsgMemInit), ret |-> 1]
    ELSE LET m1 == fill_completely([m EXCEPT !.out.initvalue_set = TRUE], content)
         IN  [m |-> [m1 EXCEPT !.undefined_count = IF @ = 0 THEN 1 ELSE @],
              ret |-> 0]

\* file_format_tree: the predefined names and their formats
file_format_tree ==
    [apple |-> "OUTPUT_FORMAT_APPLE", cbm |-> "OUTPUT_FORMAT_CBM",
     plain |-> "OUTPUT_FORMAT_PLAIN", hex |-> "OUTPUT_FORMAT_HEX"]

\* outputfile_set_format refusing a second choice
outputfile_set_format_once(m, name) ==
    IF name \notin DOMAIN file_format_tree \/ m.fmt # "OUTPUT_FORMAT_UNSPECIFIED"
    THEN [m |-> m, ret |-> 1]
    ELSE [m |-> [m EXCEPT !.fmt = file_format_tree[name]], ret |-> 0]

\* try to set output format held in DynaBuf. Returns zero on success.
outputfile_set_format(m, name) ==
    IF name \notin DOMAIN file_format_tree
    THEN [m |-> m, ret |-> 1]
    ELSE [m |-> [m EXCEPT !.fmt = file_format_tree[name]], ret |-> 0]

\* if file format was already chosen, returns zero.
\* if file format isn't set, chooses CBM and returns 1.
outputfile_prefer_cbm_format(m) ==
    IF m.fmt # "OUTPUT_FORMAT_UNSPECIFIED"
    THEN [m |-> m, ret |-> 0]
    ELSE [m |-> [m EXCEPT !.fmt = "OUTPUT_FORMAT_CBM"], ret |-> 1]

\* init output struct: the struct after Output_init(fill_value, use_large_buf)
\* on the zero-initialised static default_output
Output_init(fill_value) ==
    LET value == IF fill_value = MEMINIT_USE_DEFAULT THEN FILLVALUE_INITIAL ELSE fill_value
    IN  [bufsize |-> BufSize,
         buffer |-> [i \in 0..(BufSize - 1) |-> value % 256],
         write_idx |-> 0, lowest_written |-> 0, highest_written |-> 0,
         initvalue_set |-> (fill_value # MEMINIT_USE_DEFAULT),
         fill_value |-> value % 256,
         segment |-> [start |-> 0, max |-> 0, flags |-> 0,
                      list_head |-> [next |-> NULL, prev |-> NULL,
                                     start |-> 0, length |-> 0]],
         xor |-> 0]

\* the output modifier
output_get_xor(m) == m.out.xor
output_set_xor(m, xor) == [m EXCEPT !.out.xor = xor]

\* ------------------------------------------------------ passes and segments
\* Output_passinit leaving the limit of the last segment
Output_passinit_keeps_max(m) ==
    [m EXCEPT !.out.lowest_written = m.out.bufsize - 1,
              !.out.highest_written = 0,
              !.ob = "no_output",
              !.out.write_idx = 0,
              !.out.segment.start = NO_SEGMENT_START,
              !.out.segment.flags = 0,
              !.out.xor = 0,
              !.cpu.pc.ntype = "NUMTYPE_UNDEFINED",
              !.cpu.pc.flags = 0,
              !.cpu.pc.val = 0,
              !.cpu.add_to_pc = 0,
              !.cur = NULL]

\* Output_passinit leaving the pseudopc context
Output_passinit_keeps_context(m) ==
    [m EXCEPT !.out.lowest_written = m.out.bufsize - 1,
              !.out.highest_written = 0,
              !.ob = "no_output",
              !.out.write_idx = 0,
              !.out.segment.start = NO_SEGMENT_START,
              !.out.segment.max = m.out.bufsize - 1,
              !.out.segment.flags = 0,
              !.out.xor = 0,
              !.cpu.pc.ntype = "NUMTYPE_UNDEFINED",
              !.cpu.pc.flags = 0,
              !.cpu.pc.val = 0,
              !.cpu.add_to_pc = 0]

\* clear segment list and disable output
Output_passinit(m) ==
    [m EXCEPT !.out.lowest_written = m.out.bufsize - 1,
              !.out.highest_written = 0,
              !.ob = "no_output",
              !.out.write_idx = 0,
              !.out.segment.start = NO_SEGMENT_START,
              !.out.segment.max = m.out.bufsize - 1,
              !.out.segment.flags = 0,
              !.out.xor = 0,
              !.cpu.pc.ntype = "NUMTYPE_UNDEFINED",
              !.cpu.pc.flags = 0,
              !.cpu.pc.val = 0,
              !.cpu.add_to_pc = 0,
              !.cur = NULL]

\* Output_end_segment recording empty segments
Output_end_segment_records_empty(m) ==
    LET amount == m.out.write_idx - m.out.segment.start
    IN  IF ~FIRST_PASS THEN m
        ELSE IF m.out.segment.start = NO_SEGMENT_START THEN m
        ELSE IF HasFlag(m.out.segment.flags, SEGMENT_FLAG_INVISIBLE) THEN m
        ELSE link_segment(m, m.out.segment.start, amount)

\* Output_end_segment recording in every pass
Output_end_segment_every_pass(m) ==
    LET amount == m.out.write_idx - m.out.segment.start
    IN  IF m.out.segment.start = NO_SEGMENT_START THEN m
        ELSE IF HasFlag(m.out.segment.flags, SEGMENT_FLAG_INVISIBLE) THEN m
        ELSE IF amount = 0 THEN m
        ELSE link_segment(m, m.out.segment.start, amount)

\* show start and end of current segment
\* called whenever a new segment begins, and at end of pass.
Output_end_segment(m) ==
    LET amount == m.out.write_idx - m.out.segment.start
    IN  IF ~FIRST_PASS THEN m
        ELSE IF m.out.segment.start = NO_SEGMENT_START THEN m
        ELSE IF HasFlag(m.out.segment.flags, SEGMENT_FLAG_INVISIBLE) THEN m
        ELSE IF amount = 0 THEN m
        ELSE link_segment(m, m.out.segment.start, amount)

\* Output_start_segment without the wrap-around of write_idx
Output_start_segment_unmasked(m, address_change, segment_flags) ==
    LET m1 == Output_end_segment(m)
        m2 == [m1 EXCEPT !.out.write_idx = @ + address_change,
                         !.out.segment.start = m1.out.write_idx + address_change,
                         !.out.segment.flags = segment_flags,
                         !.ob = "real_output"]
        m3 == IF HasFlag(segment_flags, SEGMENT_FLAG_OVERLAY)
              THEN m2
              ELSE check_segment(m2, m2.out.segment.start)
    IN  IF m1.fatal # "none" THEN m1
        ELSE IF FIRST_PASS
             THEN IF m3.fatal # "none" THEN m3
                  ELSE find_segment_max(m3, m3.out.segment.start)
             ELSE m2

\* Output_start_segment checking for other segments in every pass
Output_start_segment_every_pass(m, address_change, segment_flags) ==
    LET m1 == Output_end_segment(m)
        m2 == [m1 EXCEPT !.out.write_idx = Mask(@ + address_change),
                         !.out.segment.start = Mask(m1.out.write_idx + address_change),
                         !.out.segment.flags = segment_flags,
                         !.ob = "real_output"]
        m3 == IF HasFlag(segment_flags, SEGMENT_FLAG_OVERLAY)
              THEN m2
              ELSE check_segment(m2, m2.out.segment.start)
    IN  IF m1.fatal # "none" THEN m1
        ELSE IF m3.fatal # "none" THEN m3
        ELSE find_segment_max(m3, m3.out.segment.start)

\* Output_start_segment checking overlays as well
Output_start_segment_checks_overlay(m, address_change, segment_flags) ==
    LET m1 == Output_end_segment(m)
        m2 == [m1 EXCEPT !.out.write_idx = Mask(@ + address_change),
                         !.out.segment.start = Mask(m1.out.write_idx + address_change),
                         !.out.segment.flags = segment_flags,
                         !.ob = "real_output"]
        m3 == check_segment(m2, m2.out.segment.start)
    IN  IF m1.fatal # "none" THEN m1
        ELSE IF FIRST_PASS
             THEN IF m3.fatal # "none" THEN m3
                  ELSE find_segment_max(m3, m3.out.segment.start)
             ELSE m2

\* change output pointer and enable output
Output_start_segment(m, address_change, segment_flags) ==
    LET m1 == Output_end_segment(m)
        m2 == [m1 EXCEPT !.out.write_idx = Mask(@ + address_change),
                         !.out.segment.start = Mask(m1.out.write_idx + address_change),
                         !.out.segment.flags = segment_flags,
                         !.ob = "real_output"]
        m3 == IF HasFlag(segment_flags, SEGMENT_FLAG_OVERLAY)
              THEN m2
              ELSE check_segment(m2, m2.out.segment.start)
    IN  IF m1.fatal # "none" THEN m1
        ELSE IF FIRST_PASS
             THEN IF m3.fatal # "none" THEN m3
                  ELSE find_segment_max(m3, m3.out.segment.start)
             ELSE m2

\* ------------------------------------------------------------- pseudopc
\* pseudopc_end leaving the type of the PC as it is
pseudopc_end_keeps_type(m) ==
    IF m.cur = NULL
    THEN IF config.wanted_version >= VER_DISABLED_OBSOLETE_STUFF
         THEN Bug_found(m, MsgBugPseudopc)
         ELSE m
    ELSE [m EXCEPT !.cpu.pc.val = Mask(@ - m.ctxs[m.cur].offset),
                   !.cur = m.ctxs[m.cur].outer]

\* pseudopc_end taking a missing context in every version
pseudopc_end_tolerant(m) ==
    IF m.cur = NULL
    THEN m
    ELSE [m EXCEPT !.cpu.pc.val = Mask(@ - m.ctxs[m.cur].offset),
                   !.cpu.pc.ntype = m.ctxs[m.cur].ntype,
                   !.cur = m.ctxs[m.cur].outer]

\* end offset assembly
pseudopc_end(m) ==
    IF m.cur = NULL
    THEN IF config.wanted_version >= VER_DISABLED_OBSOLETE_STUFF
         THEN Bug_found(m, MsgBugPseudopc)
         ELSE m
    ELSE [m EXCEPT !.cpu.pc.val = Mask(@ - m.ctxs[m.cur].offset),
                   !.cpu.pc.ntype = m.ctxs[m.cur].ntype,
                   !.cur = m.ctxs[m.cur].outer]

\* this is only for old, deprecated, obsolete, stupid "realpc"
RECURSIVE pseudopc_end_all(_)
pseudopc_end_all(m) ==
    IF m.cur # NULL /\ m.fatal = "none" THEN pseudopc_end_all(pseudopc_end(m)) ELSE m

\* pseudopc_start not pointing the new struct to the previous one
pseudopc_start_unlinked(m, new_pc) ==
    LET new_context == Len(m.ctxs) + 1
    IN  [m EXCEPT !.ctxs = Append(@, [outer |-> NULL,
                                      ntype |-> m.cpu.pc.ntype,
                                      offset |-> new_pc - m.cpu.pc.val]),
                  !.cur = new_context,
                  !.cpu.pc.val = new_pc,
                  !.cpu.pc.ntype = "NUMTYPE_INT"]

\* start offset assembly
pseudopc_start(m, new_pc) ==
    LET new_context == Len(m.ctxs) + 1
    IN  [m EXCEPT !.ctxs = Append(@, [outer |-> m.cur,
                                      ntype |-> m.cpu.pc.ntype,
                                      offset |-> new_pc - m.cpu.pc.val]),
                  !.cur = new_context,
                  !.cpu.pc.val = new_pc,
                  !.cpu.pc.ntype = "NUMTYPE_INT"]

\* un-pseudopc a label value by given number of levels:
\* the machine after the call, the target's value and the value returned
RECURSIVE pseudopc_unpseudo(_, _, _, _)
pseudopc_unpseudo(m, target, context, levels) ==
    IF levels = 0 THEN [m |-> m, target |-> target, ret |-> 0]
    ELSE IF context = NULL
         THEN [m |-> Throw_error(m, MsgNoContext), target |-> target, ret |-> 1]
         ELSE pseudopc_unpseudo(m, Mask(target - m.ctxs[context].offset),
                                m.ctxs[context].outer, levels - 1)

\* -------------------------------------------------------- program counter
\* vcpu_set_pc of the old versions forgetting the blocks without ending them
vcpu_set_pc_forgets_blocks(m, new_pc, segment_flags) ==
    LET m1 == IF m.cur # NULL
              THEN IF config.wanted_version < VER_SHORTER_SETPC_WARNING
                   THEN [Throw_warning(m, MsgSwitchedOff) EXCEPT !.cur = NULL]
                   ELSE IF config.wanted_version < VER_DISABLED_OBSOLETE_STUFF
                        THEN [Throw_warning(m, MsgStillActive) EXCEPT !.cur = NULL]
                        ELSE m
              ELSE m
        pc_change == new_pc - m1.cpu.pc.val
        m2 == [m1 EXCEPT !.cpu.pc.val = new_pc,
                         !.cpu.pc.ntype = "NUMTYPE_INT",
                         !.cpu.pc.addr_refs = 1]
    IN  Output_start_segment(m2, pc_change, segment_flags)

\* set program counter to defined value
vcpu_set_pc(m, new_pc, segment_flags) ==
    LET m1 == IF m.cur # NULL
              THEN IF config.wanted_version < VER_SHORTER_SETPC_WARNING
                   THEN pseudopc_end_all(Throw_warning(m, MsgSwitchedOff))
                   ELSE IF config.wanted_version < VER_DISABLED_OBSOLETE_STUFF
                        THEN pseudopc_end_all(Throw_warning(m, MsgStillActive))
                        ELSE m
              ELSE m
        pc_change == new_pc - m1.cpu.pc.val
        m2 == [m1 EXCEPT !.cpu.pc.val = new_pc,
                         !.cpu.pc.ntype = "NUMTYPE_INT",
                         !.cpu.pc.addr_refs = 1]
    IN  Output_start_segment(m2, pc_change, segment_flags)

\* vcpu_end_statement dropping the bytes of the statement
vcpu_end_statement_drops(m) ==
    [m EXCEPT !.cpu.add_to_pc = 0]

\* adjust program counter (called at end of each statement)
vcpu_end_statement(m) ==
    [m EXCEPT !.cpu.pc.val = Mask(@ + m.cpu.add_to_pc),
              !.cpu.add_to_pc = 0]

\* -------------------------------------------------------------- Intel HEX
\* maxEmpty and maxChunkSize of outputHex
maxEmpty == 32
maxChunkSize == 64

\* Output_save_file has not been called
NoHex == [at |-> "closed", i |-> 0, amount |-> 0, chunkStart |-> 0, emptyCount |-> 0,
          lines |-> <<>>]

\* output a single line in Intel HEX format: ":LLAAAA00", the data, the checksum
\* (size is an unsigned char; the data and the checksum are left out here)
outputHexChunk(h, start, size) ==
    [h EXCEPT !.lines = Append(@, [LL |-> size % 256, AAAA |-> start])]

\* Output_save_file, OUTPUT_FORMAT_HEX: outputHex(start, start + amount, fd) up to its loop
Output_save_file(o) ==
    LET nothing == o.highest_written < o.lowest_written
        start == IF nothing THEN 0 ELSE o.lowest_written
        amount == IF nothing THEN 0 ELSE o.highest_written - start + 1
    IN  [at |-> "loop", i |-> start, amount |-> start + amount, chunkStart |-> start,
         emptyCount |-> 0, lines |-> <<>>]

\* one round of the loop of outputHex, for (; i < amount; ++i)
outputHexLoop(o, h) ==
    LET c == o.buffer[h.i]
        chunkSize0 == h.i - h.chunkStart
        chunkSize == IF h.emptyCount > maxEmpty THEN chunkSize0 - h.emptyCount ELSE chunkSize0
        emptyCount == IF h.emptyCount > maxEmpty THEN h.emptyCount ELSE 0
        bytesToWrite == IF chunkSize > maxChunkSize THEN maxChunkSize ELSE chunkSize
    IN  IF o.fill_value # 0 /\ c = o.fill_value
        THEN [h EXCEPT !.emptyCount = @ + 1, !.i = @ + 1]
        ELSE IF emptyCount # 0 \/ chunkSize >= maxChunkSize
             THEN [outputHexChunk(h, h.chunkStart, bytesToWrite) EXCEPT
                      !.chunkStart = h.i - (chunkSize - bytesToWrite),
                      !.emptyCount = 0, !.i = @ + 1]
             ELSE [h EXCEPT !.emptyCount = 0, !.i = @ + 1]

\* outputHex after its loop: the last chunk, its size an unsigned char, and
\* the end-of-file record
outputHexTail(h) ==
    LET chunkSize == (h.i - h.chunkStart) % 256
        h1 == IF chunkSize # 0 THEN outputHexChunk(h, h.chunkStart, chunkSize) ELSE h
    IN  [h1 EXCEPT !.at = "written"]

\* ------------------------------------------------------------- the machine
\* the record of a call; what a call does not have is 0
NoCall ==
    [op |-> "", a |-> 0, b |-> 0, name |-> "", ret |-> 0, val |-> 0, idx |-> 0,
     stored |-> {}, ctx |-> NULL, k |-> 0, dirty |-> FALSE]

\* the pseudopc structs reached from context by following outer
RECURSIVE Chain(_, _)
Chain(ctxs, context) ==
    IF context = NULL THEN {} ELSE {context} \cup Chain(ctxs, ctxs[context].outer)

\* the number of pseudopc structs reached from context
Depth(ctxs, context) == Cardinality(Chain(ctxs, context))

\* the struct reached from context after (levels - 1) steps outward
RECURSIVE Outward(_, _, _)
Outward(ctxs, context, levels) ==
    IF levels <= 1 \/ context = NULL THEN context
    ELSE Outward(ctxs, ctxs[context].outer, levels - 1)

\* History of the pseudopc blocks, one record per struct pseudopc: the PC value
\* and type and the current context (outer) before pseudopc_start, its argument, the
\* bytes emitted inside the block so far (k), and dirty: the block was entered
\* in mid-statement (add_to_pc not 0) or has seen a vcpu_set_pc.  A block that
\* is dirty or no longer open keeps only what was recorded at its start.
BlocksAfter(op, new_pc, m) ==
    [i \in 1..Len(m.ctxs) |->
        IF i > Len(contexts)
        THEN [pc |-> CPU_state.pc.val, ntype |-> CPU_state.pc.ntype,
              outer |-> pseudopc_current_context, new |-> new_pc,
              k |-> 0, dirty |-> CPU_state.add_to_pc # 0]
        ELSE IF i \notin Chain(m.ctxs, m.cur)
             THEN [hist.blocks[i] EXCEPT !.k = 0, !.dirty = TRUE]
             ELSE IF hist.blocks[i].dirty \/ op = "vcpu_set_pc"
                  THEN [hist.blocks[i] EXCEPT !.k = 0, !.dirty = TRUE]
                  ELSE [hist.blocks[i] EXCEPT
                           !.k = IF op \in {"Output_byte", "output_skip"}
                                 THEN @ + (m.cpu.add_to_pc - CPU_state.add_to_pc)
                                 ELSE @]]

NoLabel == [set |-> FALSE, val |-> 0, ctx |-> NULL, clean |-> 0]

\* History of the pass: how often "PC undefined" was thrown (undef_count),
\* whether vcpu_set_pc was called (setpc_seen) and whether a byte was written
\* or skipped before that (early), or at all without ending the assembly (wrote);
\* the run of Output_byte calls that follows an Output_passinit and a
\* vcpu_set_pc(a) with 0 <= a < bufsize (run_a: a, or -1 outside such a run;
\* run_n: the Output_byte calls of the run so far).
\* History of the run: whether a fill value was given to Output_init or set by
\* an output_initmem that returned 0 (fill_set), and the first format chosen by
\* outputfile_set_format or outputfile_prefer_cbm_format (first_format).
HistAfter(op, a, m) ==
    LET emits == op = "Output_byte" \/ (op = "output_skip" /\ a >= 1)
        fresh == op = "Output_passinit"
    IN  [undef_count |-> IF fresh THEN 0
                         ELSE hist.undef_count + CountMsg(m.diags, exception_pc_undefined),
         setpc_seen |-> IF fresh THEN FALSE ELSE hist.setpc_seen \/ op = "vcpu_set_pc",
         early |-> IF fresh THEN FALSE ELSE hist.early \/ (emits /\ ~hist.setpc_seen),
         run_a |-> IF op = "vcpu_set_pc"
                   THEN IF last.op = "Output_passinit" /\ a \in 0..(BufSize - 1)
                        THEN a ELSE -1
                   ELSE IF op = "Output_byte" THEN hist.run_a ELSE -1,
         run_n |-> IF op = "Output_byte" /\ hist.run_a >= 0 THEN hist.run_n + 1 ELSE 0,
         wrote |-> IF fresh THEN FALSE ELSE hist.wrote \/ (emits /\ m.fatal = "none"),
         fill_set |-> hist.fill_set,
         first_format |-> IF hist.first_format = "OUTPUT_FORMAT_UNSPECIFIED"
                          THEN m.fmt ELSE hist.first_format,
         blocks |-> BlocksAfter(op, a, m),
         label |-> IF op \in {"pseudopc_start", "pseudopc_end", "pseudopc_unpseudo"}
                   THEN hist.label ELSE NoLabel]

\* The globals after a call that left the machine as m.  The list head's start
\* and length are scratch: every ring walk sets them before it reads them, and
\* they are cleared here when the call returns.
Commit(m, number, call, h) ==
    /\ out' = [m.out EXCEPT !.segment.list_head.start = 0,
                            !.segment.list_head.length = 0]
    /\ heap' = m.heap
    /\ CPU_state' = m.cpu
    /\ Output_byte' = m.ob
    /\ pseudopc_current_context' = m.cur
    /\ contexts' = m.ctxs
    /\ output_format' = m.fmt
    /\ pass' = [number |-> number, undefined_count |-> m.undefined_count]
    /\ config' = config
    /\ halted' = m.fatal
    /\ diags' = m.diags
    /\ last' = call
    /\ hist' = h
    /\ hexfile' = hexfile

\* a call made while a pass runs
InPass == halted = "none" /\ pass.number >= 1

\* the driver calls vcpu_end_statement after every statement, so a statement
\* starts with nothing pending
StatementStart == CPU_state.add_to_pc = 0

\* the state after Output_init(fill_value, use_large_buf) under a configuration
InitWith(fills, configs) ==
    /\ \E fill_value \in fills :
           /\ out = Output_init(fill_value)
           /\ hist = [fill_set |-> fill_value # MEMINIT_USE_DEFAULT,
                      first_format |-> "OUTPUT_FORMAT_UNSPECIFIED",
                      undef_count |-> 0, setpc_seen |-> FALSE, early |-> FALSE,
                          wrote |-> FALSE,
                      run_a |-> -1, run_n |-> 0, blocks |-> <<>>, label |-> NoLabel]
    /\ heap = <<>>
    /\ CPU_state = [pc |-> [val |-> 0, ntype |-> "NUMTYPE_UNDEFINED", flags |-> 0,
                            addr_refs |-> 0],
                    add_to_pc |-> 0]
    /\ Output_byte = "NULL"
    /\ pseudopc_current_context = NULL
    /\ contexts = <<>>
    /\ output_format = "OUTPUT_FORMAT_UNSPECIFIED"
    /\ pass = [number |-> 0, undefined_count |-> 0]
    /\ config \in configs
    /\ halted = "none"
    /\ diags = <<>>
    /\ last = NoCall
    /\ hexfile = NoHex

\* the driver starts the next pass and calls Output_passinit (the record of
\* the call keeps the context, write_idx and add_to_pc the pass before ended with)
PassInit(passes) ==
    /\ halted = "none"
    /\ pass.number < passes
    /\ LET m == Output_passinit([Machine EXCEPT !.undefined_count = 0])
       IN  Commit(m, pass.number + 1,
                  [NoCall EXCEPT !.op = "Output_passinit",
                                 !.ctx = pseudopc_current_context,
                                 !.idx = out.write_idx,
                                 !.k = CPU_state.add_to_pc],
                  HistAfter("Output_passinit", 0, m))

\* "*=": vcpu_set_pc(new_pc, segment_flags) (the record of the call keeps the
\* size the segment it ends has reached, 0 when no segment is open)
SetPc(new_pc, segment_flags, segments) ==
    /\ InPass
    /\ StatementStart
    /\ LET m == vcpu_set_pc(Machine, new_pc, segment_flags)
       IN  /\ Len(m.heap) <= segments
           /\ Commit(m, pass.number,
                     [NoCall EXCEPT !.op = "vcpu_set_pc", !.a = new_pc, !.b = segment_flags,
                                    !.k = IF out.segment.start = NO_SEGMENT_START THEN 0
                                          ELSE out.write_idx - out.segment.start],
                     HistAfter("vcpu_set_pc", new_pc, m))

\* Output_byte(byte), through the function pointer
OutputByte(byte) ==
    /\ InPass
    /\ LET m == CallOutput_byte(Machine, byte)
       IN  Commit(m, pass.number,
                  [NoCall EXCEPT !.op = "Output_byte", !.a = byte, !.idx = out.write_idx,
                                 !.stored = m.stored],
                  HistAfter("Output_byte", byte, m))

\* "!skip": output_skip(size)
OutputSkip(size) ==
    /\ InPass
    /\ LET m == output_skip(Machine, size)
       IN  Commit(m, pass.number,
                  [NoCall EXCEPT !.op = "output_skip", !.a = size, !.idx = out.write_idx,
                                 !.stored = m.stored],
                  HistAfter("output_skip", size, m))

\* end of a statement: vcpu_end_statement()
EndStatement ==
    /\ InPass
    /\ LET m == vcpu_end_statement(Machine)
       IN  Commit(m, pass.number, [NoCall EXCEPT !.op = "vcpu_end_statement"],
                  HistAfter("vcpu_end_statement", 0, m))

\* end of the pass: Output_end_segment()
EndSegment(segments) ==
    /\ InPass
    /\ LET m == Output_end_segment(Machine)
       IN  /\ Len(m.heap) <= segments
           /\ Commit(m, pass.number, [NoCall EXCEPT !.op = "Output_end_segment"],
                     HistAfter("Output_end_segment", 0, m))

\* "!xor": output_set_xor(xor)
SetXor(xor) ==
    /\ InPass
    /\ StatementStart
    /\ LET m == output_set_xor(Machine, xor)
       IN  Commit(m, pass.number, [NoCall EXCEPT !.op = "output_set_xor", !.a = xor],
                  HistAfter("output_set_xor", xor, m))

\* "!initmem": output_initmem(content)
Initmem(content) ==
    /\ InPass
    /\ StatementStart
    /\ LET r == output_initmem(Machine, content)
       IN  Commit(r.m, pass.number,
                  [NoCall EXCEPT !.op = "output_initmem", !.a = content, !.ret = r.ret],
                  [HistAfter("output_initmem", content, r.m) EXCEPT
                      !.fill_set = @ \/ r.ret = 0])

\* the command line's "-f" or "!to": outputfile_set_format() with name in GlobalDynaBuf
SetFormat(name) ==
    /\ halted = "none"
    /\ LET r == outputfile_set_format(Machine, name)
       IN  Commit(r.m, pass.number,
                  [NoCall EXCEPT !.op = "outputfile_set_format", !.name = name,
                                 !.ret = r.ret],
                  HistAfter("outputfile_set_format", 0, r.m))

\* outputfile_prefer_cbm_format()
PreferCbm ==
    /\ halted = "none"
    /\ LET r == outputfile_prefer_cbm_format(Machine)
       IN  Commit(r.m, pass.number,
                  [NoCall EXCEPT !.op = "outputfile_prefer_cbm_format", !.ret = r.ret],
                  HistAfter("outputfile_prefer_cbm_format", 0, r.m))

\* "!pseudopc": pseudopc_start(new_pc)
PseudoStart(new_pc, structs) ==
    /\ InPass
    /\ StatementStart
    /\ Len(contexts) < structs
    /\ LET m == pseudopc_start(Machine, new_pc)
       IN  Commit(m, pass.number, [NoCall EXCEPT !.op = "pseudopc_start", !.a = new_pc],
                  HistAfter("pseudopc_start", new_pc, m))

\* end of a "!pseudopc" block, or "!realpc" in old versions: pseudopc_end()
PseudoEnd ==
    /\ InPass
    /\ StatementStart
    /\ LET m == pseudopc_end(Machine)
           c == pseudopc_current_context
       IN  Commit(m, pass.number,
                  [NoCall EXCEPT !.op = "pseudopc_end", !.ctx = c,
                                 !.k = IF c = NULL THEN 0 ELSE hist.blocks[c].k,
                                 !.dirty = IF c = NULL THEN FALSE ELSE hist.blocks[c].dirty],
                  HistAfter("pseudopc_end", 0, m))

\* "!realpc": pseudopc_end_all()
PseudoEndAll ==
    /\ InPass
    /\ StatementStart
    /\ LET m == pseudopc_end_all(Machine)
       IN  Commit(m, pass.number, [NoCall EXCEPT !.op = "pseudopc_end_all"],
                  HistAfter("pseudopc_end_all", 0, m))

\* the number of blocks around the current statement, from the innermost
\* outward, in all of which nothing was emitted and the PC was not set
CleanLevels ==
    LET depth == Depth(contexts, pseudopc_current_context)
        clean(l) == LET c == Outward(contexts, pseudopc_current_context, l)
                    IN  ~hist.blocks[c].dirty /\ hist.blocks[c].k = 0
        upto == {n \in 0..depth : \A l \in 1..n : clean(l)}
    IN  CHOOSE n \in upto : \A o \in upto : o <= n

\* a label definition: vcpu_read_pc() and pseudopc_get_context()
DefineLabel ==
    /\ InPass
    /\ StatementStart
    /\ Commit(Machine, pass.number, [NoCall EXCEPT !.op = "vcpu_read_pc"],
              [HistAfter("vcpu_read_pc", 0, Machine) EXCEPT
                  !.label = [set |-> TRUE, val |-> CPU_state.pc.val,
                             ctx |-> pseudopc_current_context, clean |-> CleanLevels]])

\* the "&" operator on the label: pseudopc_unpseudo(target, context, levels)
Unpseudo(levels) ==
    /\ InPass
    /\ hist.label.set
    /\ LET r == pseudopc_unpseudo(Machine, hist.label.val, hist.label.ctx, levels)
       IN  Commit(r.m, pass.number,
                  [NoCall EXCEPT !.op = "pseudopc_unpseudo", !.a = levels,
                                 !.ret = r.ret, !.val = r.target],
                  HistAfter("pseudopc_unpseudo", levels, r.m))

\* ------------------------------------------------ the output engine: Spec
\* Passes over the buffer with at most MaxSegments recorded segments: every
\* address of the buffer as new_pc, a byte that stores the fill value, sizes
\* below and above 1.
Config0 == [segment_warning_is_error |-> FALSE, wanted_version |-> VER_DISABLED_OBSOLETE_STUFF]
Config1 == [segment_warning_is_error |-> TRUE, wanted_version |-> VER_SHORTER_SETPC_WARNING]
Config2 == [segment_warning_is_error |-> FALSE, wanted_version |-> 0]

Init == InitWith({MEMINIT_USE_DEFAULT}, {Config0, Config1})

Next ==
    \/ PassInit(MaxPass)
    \/ \E new_pc \in 0..(BufSize - 1), segment_flags \in FlagValues :
           SetPc(new_pc, segment_flags, MaxSegments)
    \/ \E byte \in {256} : OutputByte(byte)
    \/ \E size \in {0, 1, 2} : OutputSkip(size)
    \/ EndStatement
    \/ EndSegment(MaxSegments)

Spec == Init /\ [][Next]_vars

\* C1: a call other than Output_passinit leaves lowest_written at or below and
\* highest_written at or above every index it stored a byte at, and moves
\* neither of them inward; so, from Output_passinit on, the two bracket every
\* index stored in the pass.
WatermarksBracketStores ==
    [][last'.op # "Output_passinit" =>
          /\ \A i \in last'.stored :
                 out'.lowest_written <= i /\ i <= out'.highest_written
          /\ out'.lowest_written <= out.lowest_written
          /\ out'.highest_written >= out.highest_written]_vars

\* a byte stored in the second pass between the two watermarks' earlier values
WatermarksWitness ==
    /\ last.op = "Output_byte"
    /\ pass.number = 2
    /\ last.stored = {last.idx}
    /\ out.lowest_written < last.idx
    /\ last.idx < out.highest_written

\* C2: in the run of Output_byte calls that follows Output_passinit and
\* vcpu_set_pc(a), 0 <= a < bufsize, the first bufsize - a calls store a byte
\* each, at a, a + 1, ..., and the next call stops the assembly with the
\* serious error "Produced too much code." and stores nothing; a call stops
\* the assembly exactly when write_idx has reached bufsize.
OverrunIsFatal ==
    /\ hist.run_a >= 0 =>
          IF hist.run_n <= BufSize - hist.run_a
          THEN /\ halted = "none"
               /\ out.write_idx = hist.run_a + hist.run_n
               /\ hist.run_n >= 1 => last.stored = {hist.run_a + hist.run_n - 1}
          ELSE /\ hist.run_n = BufSize - hist.run_a + 1
               /\ halted = "serious"
               /\ CountMsg(diags, MsgTooMuch) = 1
               /\ last.stored = {}
               /\ out.write_idx = BufSize
    /\ last.op = "Output_byte" => (halted = "serious" <=> last.idx >= BufSize)
    /\ halted \in {"none", "serious"}

\* the second pass over one recorded segment runs from 1 into the end of the buffer
OverrunWitness ==
    /\ hist.run_a = 1
    /\ hist.run_n = BufSize - hist.run_a + 1
    /\ halted = "serious"
    /\ pass.number = 2
    /\ Len(heap) = 1

RecordedSegmentsSound ==
    [][/\ \A i \in 1..Len(heap') :
              /\ heap'[i].length >= 1
              /\ 0 <= heap'[i].start /\ heap'[i].start < BufSize
              /\ heap'[i].start + heap'[i].length <= BufSize
       /\ Len(heap') # Len(heap) =>
              /\ Len(heap') = Len(heap) + 1
              /\ pass.number = 1
              /\ out.segment.start # NO_SEGMENT_START
              /\ ~HasFlag(out.segment.flags, SEGMENT_FLAG_INVISIBLE)
              /\ out.write_idx - out.segment.start # 0
              /\ heap'[Len(heap')].start = out.segment.start
              /\ heap'[Len(heap')].length = out.write_idx - out.segment.start]_vars

\* a segment that ends with the buffer, recorded by Output_end_segment
RecordedSegmentsWitness ==
    /\ last.op = "Output_end_segment"
    /\ Len(heap) = 1
    /\ heap[1].start > 0
    /\ heap[1].start + heap[1].length = BufSize
    /\ out.write_idx = BufSize

\* ------------------------------------------- the segment ring: SpecRing
\* The first pass with up to MaxRing recorded segments, under both severities
\* of the segment diagnostics.
InitRing == InitWith({MEMINIT_USE_DEFAULT}, {Config0, Config1})

NextRing ==
    \/ PassInit(1)
    \/ \E new_pc \in 0..(BufSize - 1), segment_flags \in {0, SEGMENT_FLAG_OVERLAY} :
           SetPc(new_pc, segment_flags, MaxRing)
    \/ \E byte \in {256} : OutputByte(byte)
    \/ \E size \in {2} : OutputSkip(size)
    \/ EndStatement
    \/ EndSegment(MaxRing)

SpecRing == InitRing /\ [][NextRing]_vars

\* the recorded segments that hold address a
SegmentsHolding(segs, a) ==
    {i \in 1..Len(segs) : segs[i].start <= a /\ a < segs[i].start + segs[i].length}

\* C6: vcpu_set_pc in the first pass throws "Segment starts inside another
\* one, overwriting it." once when the overlay flag is not set and the new
\* write_idx lies in [start, start + length) of a recorded segment (the segment
\* the call has just closed is recorded by then), however many segments hold
\* it, and not at all otherwise; as a warning, or as an error when
\* config.segment_warning_is_error is set.
OverlapDiagnostic ==
    (last.op = "vcpu_set_pc" /\ pass.number = 1) =>
        /\ halted = "none"
        /\ CountMsg(diags, MsgStartsInside) =
               (IF ~HasFlag(last.b, SEGMENT_FLAG_OVERLAY)
                   /\ SegmentsHolding(heap, out.write_idx) # {}
                THEN 1 ELSE 0)
        /\ \A i \in 1..Len(diags) :
               diags[i].msg = MsgStartsInside =>
                   diags[i].sev = (IF config.segment_warning_is_error
                                   THEN "error" ELSE "warning")

\* a segment that starts inside two recorded segments is reported once
OverlapWitness ==
    /\ last.op = "vcpu_set_pc"
    /\ pass.number = 1
    /\ last.b = 0
    /\ Cardinality(SegmentsHolding(heap, out.write_idx)) = 2
    /\ CountMsg(diags, MsgStartsInside) = 1

\* the limit for address a: one below the smallest start of a recorded
\* segment above a, the end of the buffer when there is none
SegmentMaxFor(segs, a) ==
    LET above == {segs[i].start : i \in 1..Len(segs)} \cap (a + 1)..(BufSize - 1)
    IN  IF above = {} THEN BufSize - 1
        ELSE (CHOOSE x \in above : \A y \in above : x <= y) - 1

\* C10: find_segment_max(a) sets segment.max to one below the smallest start
\* above a among the recorded segments, or to bufsize - 1 when there is none;
\* it is called with the new write_idx by vcpu_set_pc in the first pass and
\* with the offset after the one that crossed the limit by Output_byte and
\* output_skip; it returns, and the walk leaves the ring as it was.
SegmentMaxIsNextStart ==
    [][/\ (last'.op = "vcpu_set_pc" /\ pass'.number = 1) =>
              out'.segment.max = SegmentMaxFor(heap', out'.write_idx)
       /\ (last'.op \in {"Output_byte", "output_skip"}
              /\ CountMsg(diags', MsgReached) = 1 /\ halted' = "none") =>
              /\ out'.segment.max = SegmentMaxFor(heap', out'.write_idx)
              /\ heap' = heap
              /\ out'.segment.list_head = out.segment.list_head
       /\ halted' # "hang"]_vars

\* the limit is taken from the nearer of two recorded segments above write_idx
SegmentMaxWitness ==
    /\ last.op = "vcpu_set_pc"
    /\ pass.number = 1
    /\ Cardinality({heap[i].start : i \in 1..Len(heap)}
                      \cap (out.write_idx + 1)..(BufSize - 1)) = 2
    /\ out.segment.max < BufSize - 2

\* C17, as the code has it: vcpu_set_pc sets segment.max from the recorded
\* segments in the first pass only; in every later pass segment.max is
\* bufsize - 1 from Output_passinit on, whatever segments are recorded above
\* write_idx.
SegmentMaxFirstPassOnly ==
    /\ (last.op = "vcpu_set_pc" /\ pass.number = 1) =>
           out.segment.max = SegmentMaxFor(heap, out.write_idx)
    /\ pass.number >= 2 => out.segment.max = BufSize - 1

\* the second pass starts a segment below the recorded one
SegmentMaxLaterWitness ==
    /\ last.op = "vcpu_set_pc"
    /\ pass.number = 2
    /\ Len(heap) = 1
    /\ heap[1].start > out.write_idx
    /\ SegmentMaxFor(heap, out.write_idx) < BufSize - 1
    /\ out.segment.max = BufSize - 1

\* C17, as the specification has it: segment.max is set from the recorded
\* segments by vcpu_set_pc in every pass
SegmentMaxEveryPass ==
    (last.op = "vcpu_set_pc" /\ halted = "none") =>
        out.segment.max = SegmentMaxFor(heap, out.write_idx)

\* the segments met from p by following next, up to the list head
RECURSIVE RingWalk(_, _)
RingWalk(p, fuel) ==
    IF p = NULL \/ fuel = 0 THEN <<>>
    ELSE <<p>> \o RingWalk(heap[p].next, fuel - 1)

\* (start, length) of a before or equal to that of b
SegmentLE(a, b) == a.start < b.start \/ (a.start = b.start /\ a.length <= b.length)

\* C21: after any recorded segments, in any order and with duplicates, the
\* walk from list_head.next along next meets every recorded segment once, in
\* non-decreasing (start, length) order, and comes back to the list head; prev
\* is the inverse of next all around the ring; no walk of find_segment_max,
\* check_segment or link_segment runs on forever.
RingSorted ==
    LET walk == RingWalk(out.segment.list_head.next, Len(heap) + 1)
        nodes == {NULL} \cup (1..Len(heap))
        Next_(p) == IF p = NULL THEN out.segment.list_head.next ELSE heap[p].next
        Prev_(p) == IF p = NULL THEN out.segment.list_head.prev ELSE heap[p].prev
    IN  /\ halted # "hang"
        /\ Len(walk) = Len(heap)
        /\ {walk[i] : i \in 1..Len(walk)} = 1..Len(heap)
        /\ \A i \in 1..(Len(walk) - 1) : SegmentLE(heap[walk[i]], heap[walk[i + 1]])
        /\ \A p \in nodes : Next_(p) \in nodes /\ Prev_(Next_(p)) = p

\* a segment with the start of the one recorded before it and a smaller
\* length is linked in front of it, and "*=" has searched the ring since
RingSortedWitness ==
    /\ last.op = "vcpu_set_pc"
    /\ Len(heap) = 2
    /\ heap[2].start = heap[1].start
    /\ heap[2].length < heap[1].length
    /\ out.segment.list_head.next = 2
    /\ heap[2].next = 1

\* two segments with the same start and length are both in the ring
RingDuplicatesKept ==
    /\ Len(heap) = 2
    /\ heap[1].start = heap[2].start
    /\ heap[1].length = heap[2].length

\* C20: while the current segment has the overlay flag, no Output_byte and no
\* output_skip in the first pass throws "Segment reached another one".
OverlayNeverCollides ==
    (last.op \in {"Output_byte", "output_skip"} /\ pass.number = 1
        /\ out.segment.start # NO_SEGMENT_START
        /\ HasFlag(out.segment.flags, SEGMENT_FLAG_OVERLAY)) =>
        CountMsg(diags, MsgReached) = 0

\* C23: in the first pass an Output_byte that stores, in a segment without
\* the overlay flag, at the start of a recorded segment above the current
\* segment's start throws "Segment reached another one, overwriting it.",
\* also when the Output_byte before it has crossed a border.
NoSilentEntry ==
    (/\ last.op = "Output_byte"
     /\ pass.number = 1
     /\ ~HasFlag(out.segment.flags, SEGMENT_FLAG_OVERLAY)
     /\ \E i \in last.stored :
            /\ i > out.segment.start
            /\ \E n \in 1..Len(heap) : heap[n].start = i) =>
        CountMsg(diags, MsgReached) = 1

\* -------------------------------------------- offset assembly: SpecPseudo
\* A pass with nested "!pseudopc" blocks; all segments are invisible, so that
\* none is recorded.  6 and 7 are values of the PC beyond the buffer.
InitPseudo == InitWith({MEMINIT_USE_DEFAULT}, {Config0})

NextPseudo ==
    \/ PassInit(1)
    \/ \E new_pc \in {6} : SetPc(new_pc, SEGMENT_FLAG_INVISIBLE, 0)
    \/ \E byte \in {256} : OutputByte(byte)
    \/ \E size \in {2} : OutputSkip(size)
    \/ EndStatement
    \/ \E new_pc \in {2, 7} : PseudoStart(new_pc, MaxContexts)
    \/ PseudoEnd
    \/ PseudoEndAll
    \/ DefineLabel
    \/ \E levels \in 1..MaxLevels : Unpseudo(levels)

SpecPseudo == InitPseudo /\ [][NextPseudo]_vars

\* C3, as the code has it: pseudopc_end, closing a block in which no byte was
\* emitted and the PC was not set, puts back the type of the PC and the
\* current context of before the block's pseudopc_start, and the value of the
\* PC of then reduced modulo bufsize: the value itself when it was in
\* 0 .. bufsize - 1.  By induction over the nesting, n pseudopc_start calls
\* followed by n pseudopc_end calls do so for the outermost block.
ExitRestoresMaskedPc ==
    (last.op = "pseudopc_end" /\ last.ctx # NULL /\ ~last.dirty /\ last.k = 0) =>
        LET block == hist.blocks[last.ctx]
        IN  /\ halted = "none"
            /\ CPU_state.pc.val = Mask(block.pc)
            /\ block.pc \in 0..(BufSize - 1) => CPU_state.pc.val = block.pc
            /\ CPU_state.pc.ntype = block.ntype
            /\ pseudopc_current_context = block.outer

\* the inner of two nested blocks is closed where the PC was not defined
\* before the outer one
ExitRestoresWitness ==
    /\ last.op = "pseudopc_end"
    /\ last.ctx # NULL /\ ~last.dirty /\ last.k = 0
    /\ hist.blocks[last.ctx].outer # NULL
    /\ hist.blocks[last.ctx].ntype = "NUMTYPE_INT"
    /\ hist.blocks[hist.blocks[last.ctx].outer].ntype = "NUMTYPE_UNDEFINED"
    /\ pseudopc_current_context = hist.blocks[last.ctx].outer

\* C3, as the specification has it: the value of the PC is put back whatever
\* it was before the block
ExitRestoresAnyPc ==
    (last.op = "pseudopc_end" /\ last.ctx # NULL /\ ~last.dirty /\ last.k = 0) =>
        LET block == hist.blocks[last.ctx]
        IN  /\ CPU_state.pc.val = block.pc
            /\ CPU_state.pc.ntype = block.ntype
            /\ pseudopc_current_context = block.outer

\* C4: a block entered with the PC at p, 0 <= p < bufsize, in which k bytes
\* were emitted in statements closed by vcpu_end_statement and the PC was not
\* set, is left by pseudopc_end with the PC at (p + k) modulo bufsize.
ExitAddsEmittedBytes ==
    (last.op = "pseudopc_end" /\ last.ctx # NULL /\ ~last.dirty
        /\ hist.blocks[last.ctx].pc \in 0..(BufSize - 1)) =>
        /\ halted = "none"
        /\ CPU_state.add_to_pc = 0
        /\ CPU_state.pc.val = (hist.blocks[last.ctx].pc + last.k) % BufSize

\* three bytes emitted in a block entered at 2: the PC wraps around to 1
ExitAddsWitness ==
    /\ last.op = "pseudopc_end"
    /\ last.ctx # NULL /\ ~last.dirty
    /\ hist.blocks[last.ctx].pc = 2
    /\ hist.blocks[last.ctx].new = 7
    /\ last.k = 3
    /\ CPU_state.pc.val = 1

\* the sum of (new_pc - PC before) over the innermost levels blocks from context
RECURSIVE OffsetsSum(_, _)
OffsetsSum(context, levels) ==
    IF levels = 0 \/ context = NULL THEN 0
    ELSE (hist.blocks[context].new - hist.blocks[context].pc)
         + OffsetsSum(hist.blocks[context].outer, levels - 1)

\* C5: pseudopc_unpseudo of a label's value v by levels, not more than the
\* blocks around the label's definition, returns 0, throws nothing and yields
\* (v - sum of (new_pc - PC before) of those blocks) modulo bufsize, also after
\* the blocks were closed; when nothing was emitted and the PC not set between
\* the outermost of these pseudopc_start calls, made at p in 0 .. bufsize - 1,
\* and the label, it yields p.
UnpseudoSubtractsOffsets ==
    (last.op = "pseudopc_unpseudo"
        /\ last.a <= Depth(hist.blocks, hist.label.ctx)) =>
        LET p == hist.blocks[Outward(hist.blocks, hist.label.ctx, last.a)].pc
        IN  /\ last.ret = 0
            /\ diags = <<>>
            /\ halted = "none"
            /\ last.val = (hist.label.val - OffsetsSum(hist.label.ctx, last.a)) % BufSize
            /\ (last.a <= hist.label.clean /\ p \in 0..(BufSize - 1)) => last.val = p

\* a label defined at the start of the inner of two blocks, mapped back by two
\* levels after both blocks were closed
UnpseudoWitness ==
    /\ last.op = "pseudopc_unpseudo"
    /\ last.a = 2
    /\ hist.label.clean = 2
    /\ pseudopc_current_context = NULL
    /\ hist.blocks[hist.label.ctx].new # hist.blocks[hist.blocks[hist.label.ctx].outer].new
    /\ last.ret = 0
    /\ last.val = hist.blocks[hist.blocks[hist.label.ctx].outer].pc

\* ------------------------------------- buffer contents and formats: SpecFile
\* Passes that write bytes other than the fill value, with and without an
\* output modifier, and the directives that are accepted once per run.
InitFile == InitWith({MEMINIT_USE_DEFAULT, 3}, {Config0})

NextFile ==
    \/ PassInit(MaxPass)
    \/ \E new_pc \in {2} : SetPc(new_pc, SEGMENT_FLAG_INVISIBLE, 0)
    \/ \E byte \in {257} : OutputByte(byte)
    \/ \E size \in {0, 2} : OutputSkip(size)
    \/ EndStatement
    \/ \E xor \in {3} : SetXor(xor)
    \/ \E content \in {5} : Initmem(content)
    \/ \E name \in FormatNames : SetFormat(name)
    \/ PreferCbm

SpecFile == InitFile /\ [][NextFile]_vars

\* C7: in every pass "Program counter undefined" is thrown once when a byte was
\* written, or at least one byte skipped, before the pass's first vcpu_set_pc,
\* and never otherwise; the Output_byte call that throws it stores its byte,
\* (byte & 0xff) ^ xor, at write_idx and goes on, and Output_byte is
\* real_output from then on.
UndefinedPcThrownOnce ==
    /\ hist.undef_count = (IF hist.early THEN 1 ELSE 0)
    /\ (last.op = "Output_byte" /\ CountMsg(diags, exception_pc_undefined) = 1) =>
           /\ halted = "none"
           /\ diags = <<[sev |-> "error", msg |-> exception_pc_undefined]>>
           /\ last.stored = {last.idx}
           /\ out.buffer[last.idx] = BitXor(last.a % 256, out.xor)
           /\ out.write_idx = last.idx + 1
    /\ (pass.number >= 1 /\ (hist.early \/ hist.setpc_seen)) => Output_byte = "real_output"
    /\ (pass.number >= 1 /\ ~hist.early /\ ~hist.setpc_seen) => Output_byte = "no_output"

\* the second pass: a byte written under an output modifier before any
\* vcpu_set_pc lands at 0
UndefinedPcWitness ==
    /\ last.op = "Output_byte"
    /\ pass.number = 2
    /\ CountMsg(diags, exception_pc_undefined) = 1
    /\ hist.undef_count = 1
    /\ out.xor = 3
    /\ last.idx = 0
    /\ out.buffer[0] = 2

\* C8: once a fill value was given, to Output_init or by an output_initmem
\* that returned 0, output_initmem returns nonzero, throws the warning "Memory
\* already initialised." and leaves buffer, fill value and flag as they were.
SecondInitmemRefused ==
    [][(last'.op = "output_initmem" /\ hist.fill_set) =>
          /\ last'.ret # 0
          /\ diags' = <<[sev |-> "warning", msg |-> MsgMemInit]>>
          /\ halted' = "none"
          /\ out' = out
          /\ hist'.fill_set]_vars

\* refused after the first output_initmem had filled the buffer and a byte was
\* written over the fill
SecondInitmemWitness ==
    /\ last.op = "output_initmem"
    /\ last.ret # 0
    /\ out.fill_value = 5
    /\ \E i \in DOMAIN out.buffer : out.buffer[i] # out.fill_value

\* the format a name stands for; OUTPUT_FORMAT_UNSPECIFIED for an unknown name
FormatOf(name) ==
    CASE name = "apple" -> "OUTPUT_FORMAT_APPLE"
      [] name = "cbm" -> "OUTPUT_FORMAT_CBM"
      [] name = "plain" -> "OUTPUT_FORMAT_PLAIN"
      [] name = "hex" -> "OUTPUT_FORMAT_HEX"
      [] OTHER -> "OUTPUT_FORMAT_UNSPECIFIED"

SkipStoresNothing ==
    [][last'.op = "output_skip" =>
          /\ out'.buffer = out.buffer
          /\ (last'.a >= 1 /\ halted' = "none") =>
                 /\ out'.write_idx = out.write_idx + last'.a
                 /\ CPU_state'.add_to_pc = CPU_state.add_to_pc + last'.a
          /\ last'.a < 1 =>
                 /\ out' = out
                 /\ CPU_state' = CPU_state
                 /\ Output_byte' = Output_byte
                 /\ diags' = <<>>]_vars

\* ------------------------------ passes and old versions: SpecLegacy
\* Passes with "!pseudopc" blocks and recorded segments under the three
\* levels of config.wanted_version: a pass can end with blocks and a segment
\* open, and "*=" inside a block ends the blocks in the old versions.
InitLegacy == InitWith({MEMINIT_USE_DEFAULT}, {Config0, Config1, Config2})

NextLegacy ==
    \/ PassInit(MaxPass)
    \/ \E new_pc \in {1} : SetPc(new_pc, 0, MaxSegments)
    \/ \E byte \in {256} : OutputByte(byte)
    \/ \E size \in {2} : OutputSkip(size)
    \/ EndStatement
    \/ \E new_pc \in {2} : PseudoStart(new_pc, MaxContexts)
    \/ PseudoEnd
    \/ PseudoEndAll
    \/ EndSegment(MaxSegments)

SpecLegacy == InitLegacy /\ [][NextLegacy]_vars

\* C11: Output_passinit leaves write_idx at 0, lowest_written above
\* highest_written, Output_byte at no_output, the PC undefined with value 0,
\* add_to_pc at 0, no pseudopc context, no segment open and segment.max at
\* bufsize - 1, whatever the pass before left; and in a running pass
\* lowest_written is above highest_written exactly as long as no Output_byte
\* and no output_skip of at least one byte has been made.
PassInitResets ==
    /\ last.op = "Output_passinit" =>
           /\ out.write_idx = 0
           /\ out.lowest_written > out.highest_written
           /\ Output_byte = "no_output"
           /\ CPU_state.pc.ntype = "NUMTYPE_UNDEFINED"
           /\ CPU_state.pc.val = 0
           /\ CPU_state.add_to_pc = 0
           /\ pseudopc_current_context = NULL
           /\ out.segment.start = NO_SEGMENT_START
           /\ out.segment.max = BufSize - 1
    /\ (pass.number >= 1 /\ halted = "none") =>
           (out.lowest_written > out.highest_written <=> ~hist.wrote)

\* the second pass starts after a first that ended inside a block, in a
\* segment, in mid-statement, below a recorded segment
PassInitWitness ==
    /\ last.op = "Output_passinit"
    /\ pass.number = 2
    /\ last.ctx # NULL
    /\ contexts[last.ctx].outer # NULL
    /\ last.idx > 1
    /\ last.k > 0
    /\ Len(heap) = 1

\* C14: pseudopc_end without a pseudopc context ends the assembly through
\* Bug_found when config.wanted_version is VER_DISABLED_OBSOLETE_STUFF or
\* above; in older versions it returns, throws nothing and leaves the PC, the
\* context, the output struct and the recorded segments as they were.
UnopenedBlockEnd ==
    [][(last'.op = "pseudopc_end" /\ pseudopc_current_context = NULL) =>
          IF config.wanted_version >= VER_DISABLED_OBSOLETE_STUFF
          THEN /\ halted' = "bug"
               /\ diags' = <<[sev |-> "bug", msg |-> MsgBugPseudopc]>>
          ELSE /\ halted' = "none"
               /\ diags' = <<>>
               /\ CPU_state' = CPU_state
               /\ pseudopc_current_context' = NULL
               /\ out' = out
               /\ heap' = heap
               /\ Output_byte' = Output_byte]_vars

\* an old version: the block was ended by "*=", then pseudopc_end is called
\* in the middle of the buffer
UnopenedBlockWitness ==
    /\ last.op = "pseudopc_end"
    /\ last.ctx = NULL
    /\ config.wanted_version < VER_DISABLED_OBSOLETE_STUFF
    /\ halted = "none"
    /\ Len(contexts) >= 1
    /\ CPU_state.pc.ntype = "NUMTYPE_INT"
    /\ out.write_idx > 0

\* C15, as the code has it: write_idx stays in 0 .. bufsize; it is below
\* bufsize after Output_passinit and vcpu_set_pc, and it is bufsize only when
\* the last index of the buffer was written or skipped, after which the next
\* Output_byte ends the assembly.
CursorAtMostCapacity ==
    /\ 0 <= out.write_idx /\ out.write_idx <= BufSize
    /\ last.op \in {"Output_passinit", "vcpu_set_pc"} => out.write_idx < BufSize
    /\ (pass.number >= 1 /\ out.write_idx = BufSize) => out.highest_written = BufSize - 1

\* a skip over the last two bytes of the buffer, inside a block
CursorWitness ==
    /\ last.op = "output_skip"
    /\ halted = "none"
    /\ out.write_idx = BufSize
    /\ pseudopc_current_context # NULL

\* C15, as the specification has it: write_idx stays below bufsize
CursorBelowCapacity ==
    (pass.number >= 1 /\ halted = "none") =>
        (0 <= out.write_idx /\ out.write_idx < BufSize)

\* the segment list as the ring holds it: the links of the list head
SegmentRing == [next |-> out.segment.list_head.next, prev |-> out.segment.list_head.prev]

RECURSIVE ActiveOffsets(_)
ActiveOffsets(context) ==
    IF context = NULL THEN 0
    ELSE contexts[context].offset + ActiveOffsets(contexts[context].outer)

\* C22: from the first Output_passinit on, write_idx is congruent modulo
\* bufsize to pc.val + add_to_pc - (the offsets of the pseudopc structs reached
\* from pseudopc_current_context), after every call and in all three levels
\* of config.wanted_version.
CursorFollowsPc ==
    pass.number >= 1 =>
        (out.write_idx - (CPU_state.pc.val + CPU_state.add_to_pc
                          - ActiveOffsets(pseudopc_current_context))) % BufSize = 0

\* "*=" in an old version has ended blocks (no offset of a block so far is a
\* multiple of bufsize), and write_idx is at the new PC
CursorFollowsPcWitness ==
    /\ last.op = "vcpu_set_pc"
    /\ config.wanted_version < VER_DISABLED_OBSOLETE_STUFF
    /\ CountMsg(diags, MsgStillActive) + CountMsg(diags, MsgSwitchedOff) = 1
    /\ pseudopc_current_context = NULL
    /\ Len(contexts) = 2
    /\ \A c \in 1..Len(contexts) : contexts[c].offset % BufSize # 0
    /\ out.write_idx = CPU_state.pc.val

\* "*=" in the current version inside two blocks: write_idx is away from the PC
CursorAwayFromPc ==
    /\ last.op = "vcpu_set_pc"
    /\ pseudopc_current_context # NULL
    /\ contexts[pseudopc_current_context].outer # NULL
    /\ ActiveOffsets(pseudopc_current_context) % BufSize # 0
    /\ out.write_idx # CPU_state.pc.val

\* ------------------------------------------------- the HEX writer: SpecHex
\* Output_save_file in the HEX format over a buffer of HexBufSize bytes in
\* which a pass has written, from address lo on, a run of bytes other than the
\* fill value, a run of the fill value, and again one of each; run lengths
\* around maxEmpty and maxChunkSize.
HexBufSize == 240
DataRuns == {0, 1, 63, 64, 65}
FillRuns == {0, 1, 32, 33}

\* the buffer with the four runs from lo on: 1 for a byte other than the fill value
HexBuffer(fill, lo, a, b, c, d) ==
    [j \in 0..(HexBufSize - 1) |->
        IF (lo <= j /\ j < lo + a) \/ (lo + a + b <= j /\ j < lo + a + b + c)
        THEN 1 ELSE fill]

InitHex ==
    /\ \E fill_value \in {MEMINIT_USE_DEFAULT, 3}, lo \in {0, 2},
          a \in DataRuns, b \in FillRuns, c \in {0, 1, 64}, d \in FillRuns \cup {65} :
           LET o == Output_init(fill_value)
               total == a + b + c + d
           IN  /\ out = [o EXCEPT
                            !.bufsize = HexBufSize,
                            !.buffer = HexBuffer(o.fill_value, lo, a, b, c, d),
                            !.write_idx = IF total = 0 THEN 0 ELSE lo + total,
                            !.lowest_written = IF total = 0 THEN HexBufSize - 1 ELSE lo,
                            !.highest_written = IF total = 0 THEN 0 ELSE lo + total - 1,
                            !.segment.max = HexBufSize - 1]
               /\ hist = [fill_set |-> fill_value # MEMINIT_USE_DEFAULT,
                          first_format |-> "OUTPUT_FORMAT_HEX",
                          undef_count |-> 0, setpc_seen |-> FALSE, early |-> FALSE,
                          wrote |-> FALSE,
                          run_a |-> -1, run_n |-> 0, blocks |-> <<>>, label |-> NoLabel]
    /\ heap = <<>>
    /\ CPU_state = [pc |-> [val |-> 0, ntype |-> "NUMTYPE_INT", flags |-> 0,
                            addr_refs |-> 1],
                    add_to_pc |-> 0]
    /\ Output_byte = "real_output"
    /\ pseudopc_current_context = NULL
    /\ contexts = <<>>
    /\ output_format = "OUTPUT_FORMAT_HEX"
    /\ pass = [number |-> 1, undefined_count |-> 0]
    /\ config = Config0
    /\ halted = "none"
    /\ diags = <<>>
    /\ last = NoCall
    /\ hexfile = NoHex

\* Output_save_file(fd) with OUTPUT_FORMAT_HEX, up to the loop of outputHex
SaveFile ==
    /\ halted = "none"
    /\ hexfile.at = "closed"
    /\ output_format = "OUTPUT_FORMAT_HEX"
    /\ hexfile' = Output_save_file(out)
    /\ last' = [NoCall EXCEPT !.op = "Output_save_file"]
    /\ UNCHANGED <<out, heap, CPU_state, Output_byte, pseudopc_current_context, contexts,
                   output_format, pass, config, halted, diags, hist>>

\* one round of the loop of outputHex
HexLoop ==
    /\ hexfile.at = "loop"
    /\ hexfile.i < hexfile.amount
    /\ hexfile' = outputHexLoop(out, hexfile)
    /\ UNCHANGED <<out, heap, CPU_state, Output_byte, pseudopc_current_context, contexts,
                   output_format, pass, config, halted, diags, last, hist>>

\* the end of outputHex
HexTail ==
    /\ hexfile.at = "loop"
    /\ hexfile.i >= hexfile.amount
    /\ hexfile' = outputHexTail(hexfile)
    /\ UNCHANGED <<out, heap, CPU_state, Output_byte, pseudopc_current_context, contexts,
                   output_format, pass, config, halted, diags, last, hist>>

NextHex ==
    \/ SaveFile
    \/ HexLoop
    \/ HexTail

SpecHex == InitHex /\ [][NextHex]_vars

\* C13: every data record the HEX writer emits has an LL field of at most
\* maxChunkSize, the last one before the end-of-file record included.
HexRecordsCapped ==
    \A n \in 1..Len(hexfile.lines) : hexfile.lines[n].LL <= maxChunkSize

\* the records emitted inside the loop of outputHex are capped
HexLoopRecordsCapped ==
    hexfile.at = "loop" =>
        \A n \in 1..Len(hexfile.lines) : hexfile.lines[n].LL <= maxChunkSize

====
